---------------------------- MODULE Spec2Model ----------------------------
(***************************************************************************)
(* A model of the date normalizer of plot_utils.py: as_date() and          *)
(* str2date_kernel().                                                       *)
(*                                                                         *)
(* A Python str is a sequence of one-character strings.  A Python value is *)
(* a record tagged with its Python type in field t.  An exception leaving  *)
(* a function is the outcome [kind |-> "raise", exc |-> <its class>].      *)
(***************************************************************************)
EXTENDS Integers, Sequences, FiniteSets, TLC

(***************************************************************************)
(* Python values                                                           *)
(***************************************************************************)
PyStr(s)        == [t |-> "str", s |-> s]
PyInt(n)        == [t |-> "int", n |-> n]
PyFloat(n)      == [t |-> "float", n |-> n]        \* built-in float of integral value n
NpFloat64(n)    == [t |-> "float64", n |-> n]      \* numpy.float64 of integral value n
PyNone          == [t |-> "NoneType"]
PyDate(y, m, d) == [t |-> "date", year |-> y, month |-> m, day |-> d]
Timestamp(y, m, d) == [t |-> "Timestamp", year |-> y, month |-> m, day |-> d]
PySeq(c, es)    == [t |-> c, elems |-> es]         \* c: "list", "Series" or "ndarray"

\* What a call produces: a returned value or a raised exception.
Return(v)  == [kind |-> "return", value |-> v]
Raise(exc) == [kind |-> "raise", exc |-> exc]

\* A local variable that no assignment has bound yet.
Unbound == [t |-> "unbound"]

(***************************************************************************)
(* Built-in text operations the code calls                                 *)
(***************************************************************************)
DigitChars == {"0", "1", "2", "3", "4", "5", "6", "7", "8", "9"}

LowerMap ==
    [A |-> "a", B |-> "b", C |-> "c", D |-> "d", E |-> "e", F |-> "f", G |-> "g",
     H |-> "h", I |-> "i", J |-> "j", K |-> "k", L |-> "l", M |-> "m", N |-> "n",
     O |-> "o", P |-> "p", Q |-> "q", R |-> "r", S |-> "s", T |-> "t", U |-> "u",
     V |-> "v", W |-> "w", X |-> "x", Y |-> "y", Z |-> "z"]

LowerChar(c) == IF c \in DOMAIN LowerMap THEN LowerMap[c] ELSE c

lower(s) == [i \in 1..Len(s) |-> LowerChar(s[i])]

AlphaChars == DOMAIN LowerMap \cup {LowerMap[c] : c \in DOMAIN LowerMap}

\* str.isdigit(): non-empty and every character a digit.
isdigit(s) == Len(s) > 0 /\ \A i \in 1..Len(s) : s[i] \in DigitChars

\* str.isalpha(): non-empty and every character a letter.
isalpha(s) == Len(s) > 0 /\ \A i \in 1..Len(s) : s[i] \in AlphaChars

\* c in s
Contains(s, c) == \E i \in 1..Len(s) : s[i] = c

DigitVal(c) == CHOOSE n \in 0..9 : <<"0", "1", "2", "3", "4", "5", "6", "7", "8", "9">>[n + 1] = c

DigitChar(n) == <<"0", "1", "2", "3", "4", "5", "6", "7", "8", "9">>[n + 1]

\* s.split(sep): the pieces of s between the occurrences of the character sep.
RECURSIVE SplitFrom(_, _, _, _)
SplitFrom(s, sep, i, cur) ==
    IF i > Len(s) THEN <<cur>>
    ELSE IF s[i] = sep THEN <<cur>> \o SplitFrom(s, sep, i + 1, <<>>)
    ELSE SplitFrom(s, sep, i + 1, Append(cur, s[i]))

split(s, sep) == SplitFrom(s, sep, 1, <<>>)

\* The value of a string of decimal digits.
RECURSIVE DigitsValue(_)
DigitsValue(s) ==
    IF Len(s) = 0 THEN 0
    ELSE 10 * DigitsValue(SubSeq(s, 1, Len(s) - 1)) + DigitVal(s[Len(s)])

\* int(s) for a str s: an optional minus sign and decimal digits (leading
\* zeros allowed); anything else raises ValueError.
int_str(s) ==
    IF isdigit(s) THEN Return(DigitsValue(s))
    ELSE IF Len(s) > 1 /\ s[1] = "-" /\ isdigit(Tail(s)) THEN Return(0 - DigitsValue(Tail(s)))
    ELSE Raise("ValueError")

\* str(n) for an int n: decimal digits without leading zeros, '-' if negative.
RECURSIVE NatToStr(_)
NatToStr(n) ==
    IF n < 10 THEN <<DigitChar(n)>>
    ELSE Append(NatToStr(n \div 10), DigitChar(n % 10))

str_int(n) == IF n < 0 THEN <<"-">> \o NatToStr(0 - n) ELSE NatToStr(n)

\* int(x) for any value x the model holds.
int_(x) ==
    IF x.t = "str" THEN int_str(x.s)
    ELSE IF x.t \in {"int", "float", "float64"} THEN Return(x.n)
    ELSE Raise("TypeError")

(***************************************************************************)
(* datetime                                                                *)
(***************************************************************************)
MonthAbbr ==
    << <<"J","a","n">>, <<"F","e","b">>, <<"M","a","r">>, <<"A","p","r">>,
       <<"M","a","y">>, <<"J","u","n">>, <<"J","u","l">>, <<"A","u","g">>,
       <<"S","e","p">>, <<"O","c","t">>, <<"N","o","v">>, <<"D","e","c">> >>

MonthName ==
    << <<"J","a","n","u","a","r","y">>, <<"F","e","b","r","u","a","r","y">>,
       <<"M","a","r","c","h">>, <<"A","p","r","i","l">>, <<"M","a","y">>,
       <<"J","u","n","e">>, <<"J","u","l","y">>, <<"A","u","g","u","s","t">>,
       <<"S","e","p","t","e","m","b","e","r">>, <<"O","c","t","o","b","e","r">>,
       <<"N","o","v","e","m","b","e","r">>, <<"D","e","c","e","m","b","e","r">> >>

\* dt.datetime.strptime(text, fmt).month for fmt '%b' or '%B': the number of
\* the month whose name is text, compared without regard to case; ValueError
\* when text is not such a name.
MonthLookup(table, text) ==
    IF \E m \in 1..12 : lower(table[m]) = lower(text)
    THEN Return(CHOOSE m \in 1..12 : lower(table[m]) = lower(text))
    ELSE Raise("ValueError")

strptime_b(text) == MonthLookup(MonthAbbr, text)

strptime_B(text) == MonthLookup(MonthName, text)

IsLeap(y) == (y % 4 = 0 /\ y % 100 # 0) \/ y % 400 = 0

DaysInMonth(y, m) ==
    IF m = 2 THEN (IF IsLeap(y) THEN 29 ELSE 28)
    ELSE IF m \in {4, 6, 9, 11} THEN 30 ELSE 31

\* dt.date(year, month, day): TypeError unless the three are integers,
\* ValueError unless they name a day of the proleptic Gregorian calendar
\* with 1 <= year <= 9999.
date(year, month, day) ==
    IF year.t # "int" \/ month.t # "int" \/ day.t # "int" THEN Raise("TypeError")
    ELSE IF year.n < 1 \/ year.n > 9999 THEN Raise("ValueError")
    ELSE IF month.n < 1 \/ month.n > 12 THEN Raise("ValueError")
    ELSE IF day.n < 1 \/ day.n > DaysInMonth(year.n, month.n) THEN Raise("ValueError")
    ELSE Return(PyDate(year.n, month.n, day.n))

(***************************************************************************)
(* str2date_kernel(date_)                                                  *)
(*                                                                         *)
(* Each arm of the if/elif chain leaves the locals year, month and day, or *)
(* raises.  day starts as None; year and month start unbound.              *)
(***************************************************************************)
Locals(year, month, day) == [kind |-> "locals", year |-> year, month |-> month, day |-> day]

\* Which arm of the chain date_ selects: the first whose condition holds.
KernelArm(date_) ==
    IF Contains(date_, "-") /\ Len(date_) = 8 THEN 1
    ELSE IF Contains(date_, " ") THEN 2
    ELSE IF Len(date_) = 6 /\ isdigit(date_) THEN 3
    ELSE IF Len(date_) = 7 /\ date_[5] = "-" /\ ~isdigit(date_) THEN 4
    ELSE IF Len(date_) = 10 /\ ~isdigit(date_) THEN 5
    ELSE IF Len(date_) = 6 /\ date_[4] = "-" /\ isalpha(SubSeq(date_, 1, 3))
            /\ isdigit(SubSeq(date_, 5, Len(date_))) THEN 6
    ELSE 7

\* 'Aug-2014': month is converted, year stays the str that split() gave.
kernel_Mon_YYYY(date_) ==
    LET parts == split(date_, "-") IN
    IF Len(parts) # 2 THEN Raise("ValueError")
    ELSE LET month == strptime_b(parts[1]) IN
         IF month.kind = "raise" THEN month
         ELSE Locals(PyStr(parts[2]), PyInt(month.value), PyNone)

\* kernel_Month_YYYY with the month read as an abbreviation ('%b' for '%B').
kernel_Month_YYYY_abbrev(date_) ==
    LET parts == split(date_, " ") IN
    IF Len(parts) # 2 THEN Raise("ValueError")
    ELSE LET month == strptime_b(parts[1])
             year  == int_str(parts[2]) IN
         IF month.kind = "raise" THEN month
         ELSE IF year.kind = "raise" THEN year
         ELSE Locals(PyInt(year.value), PyInt(month.value), PyNone)

\* 'August 2014'
kernel_Month_YYYY(date_) ==
    LET parts == split(date_, " ") IN
    IF Len(parts) # 2 THEN Raise("ValueError")
    ELSE LET month == strptime_B(parts[1])
             year  == int_str(parts[2]) IN
         IF month.kind = "raise" THEN month
         ELSE IF year.kind = "raise" THEN year
         ELSE Locals(PyInt(year.value), PyInt(month.value), PyNone)

\* kernel_YYYYMM with the month slice starting one character late ([5:] for [4:]).
kernel_YYYYMM_late_slice(date_) ==
    LET year  == int_str(SubSeq(date_, 1, 4))
        month == int_str(SubSeq(date_, 6, Len(date_))) IN
    IF year.kind = "raise" THEN year
    ELSE IF month.kind = "raise" THEN month
    ELSE Locals(PyInt(year.value), PyInt(month.value), PyNone)

\* '201205'
kernel_YYYYMM(date_) ==
    LET year  == int_str(SubSeq(date_, 1, 4))
        month == int_str(SubSeq(date_, 5, Len(date_))) IN
    IF year.kind = "raise" THEN year
    ELSE IF month.kind = "raise" THEN month
    ELSE Locals(PyInt(year.value), PyInt(month.value), PyNone)

\* '2015-03'
kernel_YYYY_MM(date_) ==
    LET parts == split(date_, "-") IN
    IF Len(parts) # 2 THEN Raise("ValueError")
    ELSE LET year  == int_str(parts[1])
             month == int_str(parts[2]) IN
         IF year.kind = "raise" THEN year
         ELSE IF month.kind = "raise" THEN month
         ELSE Locals(PyInt(year.value), PyInt(month.value), PyNone)

\* kernel_YYYY_MM_DD with the day split off but never assigned.
kernel_YYYY_MM_DD_day_dropped(date_) ==
    LET parts == split(date_, "-") IN
    IF Len(parts) # 3 THEN Raise("ValueError")
    ELSE LET year  == int_str(parts[1])
             month == int_str(parts[2]) IN
         IF year.kind = "raise" THEN year
         ELSE IF month.kind = "raise" THEN month
         ELSE Locals(PyInt(year.value), PyInt(month.value), PyNone)

\* '2012-02-01'
kernel_YYYY_MM_DD(date_) ==
    LET parts == split(date_, "-") IN
    IF Len(parts) # 3 THEN Raise("ValueError")
    ELSE LET year  == int_str(parts[1])
             month == int_str(parts[2])
             day   == int_str(parts[3]) IN
         IF year.kind = "raise" THEN year
         ELSE IF month.kind = "raise" THEN month
         ELSE IF day.kind = "raise" THEN day
         ELSE Locals(PyInt(year.value), PyInt(month.value), PyInt(day.value))

\* kernel_Mon_YY with a pivot year: 69..99 become 1969..1999, as '%y' reads them.
kernel_Mon_YY_pivot(date_) ==
    LET parts == split(date_, "-") IN
    IF Len(parts) # 2 THEN Raise("ValueError")
    ELSE LET month == strptime_b(parts[1])
             year  == int_str(parts[2]) IN
         IF month.kind = "raise" THEN month
         ELSE IF year.kind = "raise" THEN year
         ELSE Locals(PyInt(year.value + (IF year.value >= 69 THEN 1900 ELSE 2000)),
                     PyInt(month.value), PyNone)

\* 'May-12': the two digits are a year of the 2000s.
kernel_Mon_YY(date_) ==
    LET parts == split(date_, "-") IN
    IF Len(parts) # 2 THEN Raise("ValueError")
    ELSE LET month == strptime_b(parts[1])
             year  == int_str(parts[2]) IN
         IF month.kind = "raise" THEN month
         ELSE IF year.kind = "raise" THEN year
         ELSE Locals(PyInt(year.value + 2000), PyInt(month.value), PyNone)

\* The else arm: two lines are printed and no local is assigned.
kernel_unrecognized(date_) == Locals(Unbound, Unbound, PyNone)

\* The locals after the if/elif chain (or the exception an arm raised).
KernelLocals(date_) ==
    CASE KernelArm(date_) = 1 -> kernel_Mon_YYYY(date_)
      [] KernelArm(date_) = 2 -> kernel_Month_YYYY(date_)
      [] KernelArm(date_) = 3 -> kernel_YYYYMM(date_)
      [] KernelArm(date_) = 4 -> kernel_YYYY_MM(date_)
      [] KernelArm(date_) = 5 -> kernel_YYYY_MM_DD(date_)
      [] KernelArm(date_) = 6 -> kernel_Mon_YY(date_)
      [] OTHER                -> kernel_unrecognized(date_)

\* The print() calls of the kernel on date_, in order.
KernelPrinted(date_) ==
    IF KernelArm(date_) = 7
    THEN <<"Edge case encountered! (Date format not recognized.)", "User supplied">>
    ELSE <<>>

\* The closing if/else: reading an unbound year or month raises
\* UnboundLocalError before dt.date is called.
KernelReturn(loc) ==
    IF loc.year.t = "unbound" \/ loc.month.t = "unbound" THEN Raise("UnboundLocalError")
    ELSE IF loc.day.t = "NoneType" THEN date(loc.year, loc.month, PyInt(1))
    ELSE date(loc.year, loc.month, loc.day)

str2date_kernel(date_) ==
    LET loc == KernelLocals(date_) IN
    IF loc.kind = "raise" THEN loc ELSE KernelReturn(loc)

(***************************************************************************)
(* Inputs                                                                  *)
(***************************************************************************)
\* The longest sequence handed to as_date.
MaxLen == 3

\* n written with w decimal digits, zero-padded on the left.
RECURSIVE Pad(_, _)
Pad(n, w) == IF w = 0 THEN <<>> ELSE Append(Pad(n \div 10, w - 1), DigitChar(n % 10))

Years == {0, 1, 2014, 2015, 2016, 9999}

TwoDigits == {0, 1, 2, 5, 7, 12, 13, 21, 29, 30, 31, 99}

Words ==
    {MonthAbbr[m] : m \in 1..12} \cup {MonthName[m] : m \in 1..12}
    \cup {<<"a","u","g">>, <<"A","U","G","U","S","T">>, <<"A","u","g","u">>,
          <<"n","o","t">>, <<"d","a","t","e">>, <<"h","e","l","l","o">>}

Numerals ==
    {Pad(y, 4) : y \in Years} \cup {Pad(d, 2) : d \in TwoDigits} \cup {<<"1">>, <<"2","0","1">>}

Texts ==
    Words \cup Numerals \cup {<<>>}
    \cup {w \o <<sep>> \o n : w \in Words, sep \in {"-", " "}, n \in Numerals}
    \cup {Pad(y, 4) \o <<sep>> \o Pad(m, 2) : y \in Years, sep \in {"-", " "}, m \in TwoDigits}
    \cup {Pad(y, 4) \o Pad(m, 2) : y \in Years, m \in TwoDigits}
    \cup {Pad(y, 4) \o Pad(m, 2) \o Pad(d, 2) : y \in Years, m \in TwoDigits, d \in TwoDigits}
    \cup {Pad(y, 4) \o <<"-">> \o Pad(m, 2) \o <<"-">> \o Pad(d, 2) :
              y \in Years, m \in TwoDigits, d \in TwoDigits}
    \cup {<<"n","o","t","-","a","-","d","a","t","e">>,
          <<"2","0","1","4","-","1","-","1">>,
          <<"0","7","-","1","2","-","2","0","1","4">>,
          <<"2","0","1","4","-","0","0","7","-","1">>,
          <<"A","u","g","u","s","t"," ","-","2","0","1","4">>,
          <<"A","u","g","u","s","t"," "," ","2","0","1","4">>,
          <<"2","0","1","4","0","7","-">>,
          <<"2","0","1","4","-","-","0","7">>,
          <<"2","0","1","-","0","7">>,
          <<"A","u","-","2","0","1","4">>}

Codes ==
    {y * 100 + m : y \in Years, m \in {0, 1, 7, 12, 13}} \cup {7, 20150101, 0 - 201407}

Scalars ==
    {PyStr(s) : s \in Texts}
    \cup {PyInt(n) : n \in Codes} \cup {PyFloat(n) : n \in Codes} \cup {NpFloat64(n) : n \in Codes}
    \cup {PyDate(2014, 7, 1), Timestamp(2014, 7, 1), PyNone}

\* What the longer sequences are made of: one text of every shape, an
\* unrecognized text, a number of every type, and a value of no accepted type.
Elements ==
    {PyStr(<<"2","0","1","4","0","5">>),
     PyStr(<<"2","0","1","4","-","0","5","-","2","5">>),
     PyStr(<<"A","u","g","u","s","t"," ","2","0","1","4">>),
     PyStr(<<"M","a","y","-","1","2">>),
     PyStr(<<"A","u","g","-","2","0","1","4">>),
     PyStr(<<"h","e","l","l","o">>),
     PyStr(<<"2","0","1","5","0","1","0","1">>),
     PyInt(201406), PyFloat(201407), NpFloat64(201408), PyNone}

Containers == {"list", "Series", "ndarray"}

Inputs ==
    Scalars
    \cup {PySeq(c, <<>>) : c \in Containers}
    \cup {PySeq(c, <<x>>) : c \in Containers, x \in Scalars}
    \cup {PySeq(c, es) : c \in Containers, es \in [1..2 -> Elements]}
    \cup UNION {{PySeq("list", es) : es \in [1..n -> Elements]} : n \in 3..MaxLen}
    \cup {PySeq("tuple", <<PyInt(201405), PyInt(201406)>>)}

(***************************************************************************)
(* as_date(str_date)                                                       *)
(***************************************************************************)
VARIABLES
    arg,        \* the caller's object, as it is after the call began
    str_date,   \* the parameter (rebound by the list() conversions)
    pc,         \* "call", "loop" or "done"
    j,          \* loop index
    nr,         \* len(str_date) in the loop
    date_,      \* function-level local of as_date
    date_list,  \* function-level local of as_date
    result,     \* what the call produced, once pc = "done"
    stdout      \* the lines printed so far

vars == <<arg, str_date, pc, j, nr, date_, date_list, result, stdout>>

NoResult == [kind |-> "none"]

\* The cell [None] that fills the fresh result list.
NoneCell == PySeq("list", <<PyNone>>)

Init ==
    /\ arg \in Inputs
    /\ str_date = arg
    /\ pc = "call"
    /\ j = 0
    /\ nr = 0
    /\ date_ = Unbound
    /\ date_list = Unbound
    /\ result = NoResult
    /\ stdout = <<>>

\* Lines 1538-1541: a Series or an ndarray becomes the list of its elements.
AsList(v) == IF v.t \in {"Series", "ndarray"} THEN PySeq("list", v.elems) ELSE v

IsTimestamp(v) == v.t = "Timestamp"

IsList(v) == AsList(v).t = "list"

\* isinstance(x, int) or isinstance(x, np.float64): a built-in float is neither.
IsIntOrFloat64(x) == x.t \in {"int", "float64"}

\* The call ends: it returns date_list or lets the exception out.
Finish(outcome, local_date_, local_date_list, printed) ==
    /\ pc' = "done"
    /\ result' = outcome
    /\ date_' = local_date_
    /\ date_list' = local_date_list
    /\ stdout' = stdout \o printed

\* date_list = str2date_kernel(date_); return date_list
ConvertAndReturn(text) ==
    LET k == str2date_kernel(text) IN
    Finish(k, PyStr(text), IF k.kind = "return" THEN k.value ELSE Unbound, KernelPrinted(text))

\* Line 1534: a pandas Timestamp is returned as it is.
AsDateTimestamp ==
    /\ pc = "call"
    /\ IsTimestamp(str_date)
    /\ Finish(Return(str_date), date_, str_date, <<>>)
    /\ UNCHANGED <<arg, str_date, j, nr>>

\* AsDateEmpty returning the empty list itself instead of None.
AsDateEmpty_returns_list ==
    /\ pc = "call"
    /\ ~IsTimestamp(str_date)
    /\ IsList(str_date)
    /\ Len(AsList(str_date).elems) = 0
    /\ str_date' = AsList(str_date)
    /\ Finish(Return(AsList(str_date)), date_, AsList(str_date), <<>>)
    /\ UNCHANGED <<arg, j, nr>>

\* Lines 1545-1546: the empty list.
AsDateEmpty ==
    /\ pc = "call"
    /\ ~IsTimestamp(str_date)
    /\ IsList(str_date)
    /\ Len(AsList(str_date).elems) = 0
    /\ str_date' = AsList(str_date)
    /\ Finish(Return(PyNone), date_, PyNone, <<>>)
    /\ UNCHANGED <<arg, j, nr>>

\* Lines 1547-1549: a list of one element; the element goes through int().
AsDateSingle ==
    /\ pc = "call"
    /\ ~IsTimestamp(str_date)
    /\ IsList(str_date)
    /\ Len(AsList(str_date).elems) = 1
    /\ str_date' = AsList(str_date)
    /\ LET n == int_(AsList(str_date).elems[1]) IN
       IF n.kind = "raise"
       THEN Finish(n, date_, date_list, <<>>)
       ELSE ConvertAndReturn(str_int(n.value))
    /\ UNCHANGED <<arg, j, nr>>

\* Lines 1550-1552: a longer list; date_list = [[None]] * nr.
AsDateLoopBegin ==
    /\ pc = "call"
    /\ ~IsTimestamp(str_date)
    /\ IsList(str_date)
    /\ Len(AsList(str_date).elems) > 1
    /\ str_date' = AsList(str_date)
    /\ nr' = Len(AsList(str_date).elems)
    /\ date_list' = [i \in 1..Len(AsList(str_date).elems) |-> NoneCell]
    /\ j' = 0
    /\ pc' = "loop"
    /\ UNCHANGED <<arg, date_, result, stdout>>

\* Lines 1554-1559: the three ifs of the loop body; date_ keeps its value
\* when none of them applies to the element.
ElementText(x, old) ==
    LET d1 == IF x.t = "str" /\ isdigit(x.s) THEN PyStr(str_int(int_str(x.s).value)) ELSE old
        d2 == IF x.t = "str" /\ ~isdigit(x.s) THEN PyStr(x.s) ELSE d1
    IN  IF IsIntOrFloat64(x) THEN PyStr(str_int(x.n)) ELSE d2

\* Lines 1553-1560: one pass of the loop body, for index j.
AsDateLoopStep ==
    /\ pc = "loop"
    /\ j < nr
    /\ LET d == ElementText(str_date.elems[j + 1], date_) IN
       IF d.t = "unbound"
       THEN /\ Finish(Raise("UnboundLocalError"), date_, date_list, <<>>)
            /\ j' = j
       ELSE LET k == str2date_kernel(d.s) IN
            IF k.kind = "raise"
            THEN /\ Finish(k, d, date_list, KernelPrinted(d.s))
                 /\ j' = j
            ELSE /\ date_' = d
                 /\ date_list' = [date_list EXCEPT ![j + 1] = k.value]
                 /\ j' = j + 1
                 /\ stdout' = stdout \o KernelPrinted(d.s)
                 /\ UNCHANGED <<pc, result>>
    /\ UNCHANGED <<arg, str_date, nr>>

\* Line 1577 after the loop: return date_list.
AsDateLoopReturn ==
    /\ pc = "loop"
    /\ j = nr
    /\ Finish(Return(PySeq("list", date_list)), date_, date_list, <<>>)
    /\ UNCHANGED <<arg, str_date, j, nr>>

\* AsDateDate without the dt.date test: the date falls to the else branch.
AsDateDate_branch_missing ==
    /\ pc = "call"
    /\ ~IsTimestamp(str_date)
    /\ ~IsList(str_date)
    /\ str_date.t = "date"
    /\ Finish(Raise("UnboundLocalError"), date_, date_list,
              <<"Edge case encountered! (Input data type of str_date not recognized.)",
                "type(str_date) is", "str_date has no length.">>)
    /\ UNCHANGED <<arg, str_date, j, nr>>

\* Lines 1561-1562: type(str_date) == dt.date.
AsDateDate ==
    /\ pc = "call"
    /\ ~IsTimestamp(str_date)
    /\ ~IsList(str_date)
    /\ str_date.t = "date"
    /\ Finish(Return(str_date), date_, str_date, <<>>)
    /\ UNCHANGED <<arg, str_date, j, nr>>

\* Lines 1563-1565: an int or a numpy.float64.
AsDateNumber ==
    /\ pc = "call"
    /\ ~IsTimestamp(str_date)
    /\ ~IsList(str_date)
    /\ str_date.t # "date"
    /\ IsIntOrFloat64(str_date)
    /\ ConvertAndReturn(str_int(str_date.n))
    /\ UNCHANGED <<arg, str_date, j, nr>>

\* Lines 1566-1568: a single str.
AsDateStr ==
    /\ pc = "call"
    /\ ~IsTimestamp(str_date)
    /\ ~IsList(str_date)
    /\ str_date.t # "date"
    /\ ~IsIntOrFloat64(str_date)
    /\ str_date.t = "str"
    /\ ConvertAndReturn(str_date.s)
    /\ UNCHANGED <<arg, str_date, j, nr>>

\* Lines 1569-1577: any other type; three lines are printed, and the return
\* reads date_list, which no branch has bound.
AsDateEdgeCase ==
    /\ pc = "call"
    /\ ~IsTimestamp(str_date)
    /\ ~IsList(str_date)
    /\ str_date.t # "date"
    /\ ~IsIntOrFloat64(str_date)
    /\ str_date.t # "str"
    /\ Finish(Raise("UnboundLocalError"), date_, date_list,
              <<"Edge case encountered! (Input data type of str_date not recognized.)",
                "type(str_date) is",
                IF str_date.t = "tuple" THEN "Length of str_date is" ELSE "str_date has no length.">>)
    /\ UNCHANGED <<arg, str_date, j, nr>>

Next ==
    \/ AsDateTimestamp
    \/ AsDateEmpty
    \/ AsDateSingle
    \/ AsDateLoopBegin
    \/ AsDateLoopStep
    \/ AsDateLoopReturn
    \/ AsDateDate
    \/ AsDateNumber
    \/ AsDateStr
    \/ AsDateEdgeCase

Spec == Init /\ [][Next]_vars

\* as_date on a value that is not a sequence, as one outcome (lines 1534-1535
\* and 1561-1577).
as_date_scalar(x) ==
    IF IsTimestamp(x) THEN Return(x)
    ELSE IF x.t = "date" THEN Return(x)
    ELSE IF IsIntOrFloat64(x) THEN str2date_kernel(str_int(x.n))
    ELSE IF x.t = "str" THEN str2date_kernel(x.s)
    ELSE Raise("UnboundLocalError")

\* The actions on a scalar produce what as_date_scalar says.
ScalarActionsAgree ==
    pc = "done" /\ ~IsList(arg) => result = as_date_scalar(arg)

(***************************************************************************)
(* The six textual patterns, as shapes of the text                         *)
(***************************************************************************)
IsAbbrev(w) == \E m \in 1..12 : lower(MonthAbbr[m]) = lower(w)

IsFullName(w) == \E m \in 1..12 : lower(MonthName[m]) = lower(w)

AbbrevNo(w) == CHOOSE m \in 1..12 : lower(MonthAbbr[m]) = lower(w)

FullNameNo(w) == CHOOSE m \in 1..12 : lower(MonthName[m]) = lower(w)

\* The number written at positions a..b of s.
Field(s, a, b) == DigitsValue(SubSeq(s, a, b))

\* Position of the first space of s (0 if none).
SpaceAt(s) == IF Contains(s, " ") THEN CHOOSE k \in 1..Len(s) : s[k] = " " /\ \A i \in 1..(k - 1) : s[i] # " " ELSE 0

Shape_Mon_YYYY(s) ==
    Len(s) = 8 /\ s[4] = "-" /\ IsAbbrev(SubSeq(s, 1, 3)) /\ isdigit(SubSeq(s, 5, 8))

Shape_Month_YYYY(s) ==
    SpaceAt(s) > 0 /\ IsFullName(SubSeq(s, 1, SpaceAt(s) - 1)) /\ isdigit(SubSeq(s, SpaceAt(s) + 1, Len(s)))

Shape_YYYYMM(s) == Len(s) = 6 /\ isdigit(s)

Shape_YYYY_MM(s) ==
    Len(s) = 7 /\ s[5] = "-" /\ isdigit(SubSeq(s, 1, 4)) /\ isdigit(SubSeq(s, 6, 7))

Shape_YYYY_MM_DD(s) ==
    /\ Len(s) = 10 /\ s[5] = "-" /\ s[8] = "-"
    /\ isdigit(SubSeq(s, 1, 4)) /\ isdigit(SubSeq(s, 6, 7)) /\ isdigit(SubSeq(s, 9, 10))

Shape_Mon_YY(s) ==
    Len(s) = 6 /\ s[4] = "-" /\ IsAbbrev(SubSeq(s, 1, 3)) /\ isdigit(SubSeq(s, 5, 6))

MatchesNoPattern(s) ==
    ~(\/ Shape_Mon_YYYY(s) \/ Shape_Month_YYYY(s) \/ Shape_YYYYMM(s)
      \/ Shape_YYYY_MM(s) \/ Shape_YYYY_MM_DD(s) \/ Shape_Mon_YY(s))

\* (y, m, d) is a day of the calendar that dt.date can hold.
IsCalendarDate(y, m, d) ==
    y \in 1..9999 /\ m \in 1..12 /\ d \in 1..DaysInMonth(y, m)

\* The call on a single str has ended.
StrDone == pc = "done" /\ arg.t = "str"

(***************************************************************************)
(* Claims about str2date_kernel, reached through as_date on a single str   *)
(***************************************************************************)

\* C1: a text that matches none of the six patterns is normalized without
\* an exception and the call returns something that is not a date.
C1_UnrecognizedDoesNotRaise ==
    StrDone /\ MatchesNoPattern(arg.s) =>
        result.kind = "return" /\ result.value.t # "date"

\* C2: a text Mon-YYYY (month abbreviation, hyphen, four digits of a year
\* 1..9999) gives the date (YYYY, number of Mon, 1).
C2_Mon_YYYY ==
    StrDone /\ Shape_Mon_YYYY(arg.s) /\ Field(arg.s, 5, 8) >= 1 =>
        result = Return(PyDate(Field(arg.s, 5, 8), AbbrevNo(SubSeq(arg.s, 1, 3)), 1))

\* C3: a text 'Month YYYY' (full month name, one space, the digits of a
\* year 1..9999) gives the date (YYYY, number of Month, 1).
C3_Month_YYYY ==
    StrDone /\ Shape_Month_YYYY(arg.s)
            /\ Field(arg.s, SpaceAt(arg.s) + 1, Len(arg.s)) \in 1..9999 =>
        result = Return(PyDate(Field(arg.s, SpaceAt(arg.s) + 1, Len(arg.s)),
                               FullNameNo(SubSeq(arg.s, 1, SpaceAt(arg.s) - 1)), 1))

C3_Witness ==
    /\ StrDone
    /\ arg.s = <<"A","u","g","u","s","t"," ","2","0","1","4">>
    /\ result = Return(PyDate(2014, 8, 1))

\* C4: a text of six digits YYYYMM with MM in 01..12 (and YYYY a year
\* 1..9999) gives the date (first four digits, last two digits, 1).
C4_YYYYMM ==
    StrDone /\ Shape_YYYYMM(arg.s)
            /\ Field(arg.s, 5, 6) \in 1..12 /\ Field(arg.s, 1, 4) >= 1 =>
        result = Return(PyDate(Field(arg.s, 1, 4), Field(arg.s, 5, 6), 1))

C4_Witness ==
    /\ StrDone
    /\ arg.s = <<"2","0","1","4","0","7">>
    /\ result = Return(PyDate(2014, 7, 1))

C6_Mon_YY ==
    StrDone /\ Shape_Mon_YY(arg.s) =>
        result = Return(PyDate(2000 + Field(arg.s, 5, 6), AbbrevNo(SubSeq(arg.s, 1, 3)), 1))

C6_Witness ==
    /\ StrDone
    /\ arg.s = <<"M","a","y","-","9","9">>
    /\ result = Return(PyDate(2099, 5, 1))

(***************************************************************************)
(* Claims about as_date                                                    *)
(***************************************************************************)
IsNumber(x) == x.t \in {"int", "float", "float64"}

\* n is a year-month code YYYYMM of six digits.
IsCode(n) == (n \div 100) \in 1000..9999 /\ (n % 100) \in 1..12

CodeDate(n) == PyDate(n \div 100, n % 100, 1)

\* The call on a sequence has ended.
SeqDone == pc = "done" /\ IsList(arg)

\* C7: for a year-month code YYYYMM, as_date of the int, of the float and
\* of the text of six digits all return the date (YYYY, MM, 1).
C7_NumericScalarEquivalence ==
    /\ pc = "done" /\ IsNumber(arg) /\ IsCode(arg.n) => result = Return(CodeDate(arg.n))
    /\ StrDone /\ Shape_YYYYMM(arg.s) /\ IsCode(Field(arg.s, 1, 6)) =>
           result = Return(CodeDate(Field(arg.s, 1, 6)))

\* A scalar that as_date normalizes when it is given alone.
NormalizableAlone(x) ==
    (x.t = "str" \/ IsNumber(x)) /\ as_date_scalar(x).kind = "return"

\* C8: as_date of a sequence holding one scalar that as_date normalizes on
\* its own returns what as_date returns for that scalar.
C8_SingletonEqualsScalar ==
    SeqDone /\ Len(arg.elems) = 1 /\ NormalizableAlone(arg.elems[1]) =>
        result = as_date_scalar(arg.elems[1])

\* An element the claims count as normalizable: a text as_date normalizes
\* alone, or an int or float (of either float type) year-month code.
NormalizableElement(x) ==
    (x.t = "str" /\ as_date_scalar(x).kind = "return") \/ (IsNumber(x) /\ IsCode(x.n))

\* The date such an element stands for.
ElementDate(x) == IF x.t = "str" THEN as_date_scalar(x).value ELSE CodeDate(x.n)

\* C9: as_date of a sequence of n > 1 normalizable scalars returns the list
\* of the n dates of its elements, in order.
C9_SequenceElementwise ==
    SeqDone /\ Len(arg.elems) > 1 /\ (\A i \in 1..Len(arg.elems) : NormalizableElement(arg.elems[i])) =>
        result = Return(PySeq("list", [i \in 1..Len(arg.elems) |-> ElementDate(arg.elems[i])]))

\* An element as_date cannot convert: a value of no accepted type, or a text
\* of none of the six patterns.
Unconvertible(x) ==
    (x.t # "str" /\ ~IsNumber(x)) \/ (x.t = "str" /\ MatchesNoPattern(x.s))

\* C10: when as_date returns for a sequence of n > 1 elements, the result
\* has n entries and no entry at the index of an unconvertible element is
\* a date (which could only come from a sibling).
C10_FailureAttributedToElement ==
    SeqDone /\ Len(arg.elems) > 1 /\ result.kind = "return" =>
        /\ Len(result.value.elems) = Len(arg.elems)
        /\ \A i \in 1..Len(arg.elems) :
               Unconvertible(arg.elems[i]) => result.value.elems[i].t # "date"

(***************************************************************************)
(* as_date as a function of its argument, and a caller that calls again    *)
(***************************************************************************)
\* The loop of lines 1553-1560 from index i (0-based) on, with date_ as the
\* iterations before left it and acc the entries of date_list.
RECURSIVE LoopOutcome(_, _, _, _)
LoopOutcome(elems, i, old, acc) ==
    IF i = Len(elems) THEN Return(PySeq("list", acc))
    ELSE LET d == ElementText(elems[i + 1], old) IN
         IF d.t = "unbound" THEN Raise("UnboundLocalError")
         ELSE LET k == str2date_kernel(d.s) IN
              IF k.kind = "raise" THEN k
              ELSE LoopOutcome(elems, i + 1, d, [acc EXCEPT ![i + 1] = k.value])

\* What as_date(x) produces, for any x (lines 1534-1577).
as_date_outcome(x) ==
    IF ~IsTimestamp(x) /\ IsList(x)
    THEN LET elems == AsList(x).elems IN
         IF Len(elems) = 0 THEN Return(PyNone)
         ELSE IF Len(elems) = 1
              THEN LET n == int_(elems[1]) IN
                   IF n.kind = "raise" THEN n ELSE str2date_kernel(str_int(n.value))
              ELSE LoopOutcome(elems, 0, Unbound, [i \in 1..Len(elems) |-> NoneCell])
    ELSE as_date_scalar(x)

\* The most lines a process has printed when the caller calls once more.
MaxPrinted == 3

\* What the caller passes on a later call.
LaterInputs ==
    Elements
    \cup {PySeq("list", <<PyInt(201406), PyNone>>),
          PySeq("list", <<PyNone, PyInt(201406)>>),
          PySeq("list", <<PyStr(<<"h","e","l","l","o">>), PyInt(201406)>>),
          PySeq("list", <<>>)}

\* Activate with date_ as the activation before left it (as a module-level
\* date_ would be).
Activate_date_kept(x) ==
    /\ arg' = x
    /\ str_date' = x
    /\ pc' = "call"
    /\ j' = 0
    /\ nr' = 0
    /\ date_list' = Unbound
    /\ result' = NoResult
    /\ UNCHANGED <<stdout, date_>>

\* A new activation of as_date on x: the parameter is bound to x and the
\* locals of the activation are unbound; what was printed stays printed.
Activate(x) ==
    /\ arg' = x
    /\ str_date' = x
    /\ pc' = "call"
    /\ j' = 0
    /\ nr' = 0
    /\ date_' = Unbound
    /\ date_list' = Unbound
    /\ result' = NoResult
    /\ UNCHANGED stdout

\* The caller calls as_date again, on another input.
AsDateAgain ==
    /\ pc = "done"
    /\ Len(stdout) < MaxPrinted
    /\ \E x \in LaterInputs : Activate(x)

\* The caller calls as_date on the date a call returned.
AsDateOnResult ==
    /\ pc = "done"
    /\ result.kind = "return"
    /\ result.value.t \in {"date", "Timestamp"}
    /\ result.value # arg
    /\ Activate(result.value)

NextCalls ==
    \/ AsDateTimestamp
    \/ AsDateEmpty
    \/ AsDateSingle
    \/ AsDateLoopBegin
    \/ AsDateLoopStep
    \/ AsDateLoopReturn
    \/ AsDateDate
    \/ AsDateNumber
    \/ AsDateStr
    \/ AsDateEdgeCase
    \/ AsDateAgain
    \/ AsDateOnResult

SpecCalls == Init /\ [][NextCalls]_vars

\* The actions produce what as_date_outcome says, whatever was called before.
ActionsAgree == pc = "done" => result = as_date_outcome(arg)

(***************************************************************************)
(* More claims about as_date                                               *)
(***************************************************************************)

\* C11: as_date of an empty sequence returns None; nothing is converted
\* (date_ is never bound) and nothing is printed.
C11_EmptyGivesNone ==
    SeqDone /\ Len(arg.elems) = 0 =>
        result = Return(PyNone) /\ date_.t = "unbound" /\ stdout = <<>>

C11_Witness ==
    pc = "done" /\ arg = PySeq("list", <<>>) /\ result = Return(PyNone)

\* C12: as_date of a datetime.date or of a Timestamp returns it unchanged;
\* so as_date of a date that as_date returned is that date again.
C12_Idempotent ==
    pc = "done" /\ arg.t \in {"date", "Timestamp"} => result = Return(arg)

\* as_date("2015-02-21") returned a date, and as_date of that date has
\* returned it.
C12_Witness ==
    pc = "done" /\ arg = PyDate(2015, 2, 21) /\ result = Return(PyDate(2015, 2, 21))

\* The types as_date has a branch for.
AcceptedTypes ==
    {"date", "Timestamp", "list", "Series", "ndarray", "int", "float", "float64", "str"}

\* C13: for an input of a type that is no date, sequence, int, float or
\* text, as_date raises a TypeError.
C13_TypeMismatchRaisesTypeError ==
    pc = "done" /\ arg.t \notin AcceptedTypes \cup {"tuple"} => result = Raise("TypeError")

\* C14: a text of length 6, 7, 8 or 10 that has the shape of none of the six
\* patterns is taken by no pattern arm: it reaches the else arm, which
\* prints the two lines of the diagnostic, and no date is returned.
C14_ExactShape ==
    StrDone /\ Len(arg.s) \in {6, 7, 8, 10} /\ MatchesNoPattern(arg.s) =>
        /\ KernelArm(arg.s) = 7
        /\ Len(stdout) = 2
        /\ result.kind # "return"

\* C15 as stated: as_date's result is a function of its argument alone, the
\* argument is never modified, and nothing is ever printed.
C15_PureNoIO ==
    /\ [](pc = "done" => result = as_date_outcome(arg))
    /\ [][pc # "done" => arg' = arg]_vars
    /\ [](stdout = <<>>)

\* C15 as amended: as_date's result is a function of its argument alone,
\* whatever was called before; the argument is never modified during a
\* call; and a step prints only when it ends the call with the
\* UnboundLocalError that follows a diagnostic.
C15_PureExceptDiagnostics ==
    /\ [](pc = "done" => result = as_date_outcome(arg))
    /\ [][pc # "done" => arg' = arg]_vars
    /\ [][stdout' # stdout => pc' = "done" /\ result' = Raise("UnboundLocalError")]_vars

\* A second call, on a list, has returned after an earlier call printed.
C15_Witness ==
    /\ pc = "done"
    /\ Len(stdout) = 2
    /\ arg = PySeq("list", <<PyInt(201406), PyNone>>)
    /\ result.kind = "return"

\* s is a text of eight digits YYYYMMDD that names a calendar date.
IsYYYYMMDD(s) ==
    Len(s) = 8 /\ isdigit(s) /\ IsCalendarDate(Field(s, 1, 4), Field(s, 5, 6), Field(s, 7, 8))

\* C16: as_date of a list of two or more texts YYYYMMDD returns the list of
\* the dates (YYYY, MM, DD).
C16_ListOfYYYYMMDD ==
    SeqDone /\ Len(arg.elems) > 1
            /\ (\A i \in 1..Len(arg.elems) : arg.elems[i].t = "str" /\ IsYYYYMMDD(arg.elems[i].s)) =>
        result = Return(PySeq("list",
                     [i \in 1..Len(arg.elems) |->
                         PyDate(Field(arg.elems[i].s, 1, 4), Field(arg.elems[i].s, 5, 6),
                                Field(arg.elems[i].s, 7, 8))]))

(***************************************************************************)
(* get_colors(N, color_scheme)                                             *)
(*                                                                         *)
(* The module runs under Python 2 or Python 3; the interpreter is part of  *)
(* the input (field py).  The variables of as_date stay idle.              *)
(***************************************************************************)
\* A color scheme given as a str, and one given as a float (in tenths).
Scheme(name) == [t |-> "str", name |-> name]

SchemeFloat(tenths) == [t |-> "float", tenths |-> tenths]

\* nr_c: the number of colors of each qualitative color map.
nr_c ==
    [Pastel1 |-> 9, Pastel2 |-> 8, Paired |-> 12, Accent |-> 8, Dark2 |-> 8, Set1 |-> 9,
     Set2 |-> 8, Set3 |-> 12, tab10 |-> 10, tab20 |-> 20, tab20b |-> 20, tab20c |-> 20]

qcm_names == DOMAIN nr_c

qcm_names_lower == {"pastel1", "pastel2", "paired", "accent", "dark2", "set1", "set2", "set3"}

\* str.title() on the names of qcm_names_lower.
title ==
    [pastel1 |-> "Pastel1", pastel2 |-> "Pastel2", paired |-> "Paired", accent |-> "Accent",
     dark2 |-> "Dark2", set1 |-> "Set1", set2 |-> "Set2", set3 |-> "Set3"]

\* [list(_)[:3] for _ in mpl.cm.<c_s>(range(nr_c[c_s]))]: entry i is the RGB
\* part of color i of the color map, written <<c_s, i>>.
ColorMapPalette(c_s) == [i \in 1..nr_c[c_s] |-> <<c_s, i - 1>>]

\* The if/elif chain of lines 331-364: the palette of a color scheme that
\* passed the type test, or the ValueError of the else arm.  The MATLAB
\* colors are in ten-thousandths.
Palette(color_scheme) ==
    IF color_scheme = Scheme("rgbcmyk") THEN Return(<<"b", "g", "r", "c", "m", "y", "k">>)
    ELSE IF color_scheme = Scheme("tab10")
    THEN Return(<<"#1f77b4", "#ff7f0e", "#2ca02c", "#d62728", "#9467bd",
                  "#8c564b", "#e377c2", "#7f7f7f", "#bcbd22", "#17becf">>)
    ELSE IF color_scheme.t = "str" /\ color_scheme.name \in qcm_names
    THEN Return(ColorMapPalette(color_scheme.name))
    ELSE IF color_scheme.t = "str" /\ color_scheme.name \in qcm_names_lower
    THEN Return(ColorMapPalette(title[color_scheme.name]))
    ELSE IF color_scheme = SchemeFloat(83)
    THEN Return(<< <<0, 0, 10000>>, <<0, 5000, 0>>, <<10000, 0, 0>>, <<0, 7500, 7500>>,
                   <<7500, 0, 7500>>, <<7500, 7500, 0>>, <<2500, 2500, 2500>> >>)
    ELSE IF color_scheme = SchemeFloat(84)
    THEN Return(<< <<0, 4470, 7410>>, <<8500, 3250, 980>>, <<9290, 6940, 1250>>,
                   <<4940, 1840, 5560>>, <<4660, 6740, 1880>>, <<3010, 7450, 9330>>,
                   <<6350, 780, 1840>> >>)
    ELSE Raise("ValueError")

\* The largest N asked for.
MaxN == 21

Interpreters == {2, 3}

ColorSchemes ==
    {Scheme(n) : n \in qcm_names \cup qcm_names_lower \cup {"rgbcmyk", "TAB10", "viridis"}}
    \cup {SchemeFloat(83), SchemeFloat(84), SchemeFloat(85), PyInt(8), PyNone}

ColorCounts == {PyNone, PyFloat(2)} \cup {PyInt(n) : n \in (0 - 1)..MaxN}

ColorInputs ==
    {[fn |-> "get_colors", py |-> v, N |-> n, color_scheme |-> c] :
        v \in Interpreters, n \in ColorCounts, c \in ColorSchemes}

InitColors ==
    /\ arg \in ColorInputs
    /\ str_date = Unbound
    /\ pc = "call"
    /\ j = 0
    /\ nr = 0
    /\ date_ = Unbound
    /\ date_list = Unbound
    /\ result = NoResult
    /\ stdout = <<>>

\* get_colors ends with the outcome; it prints nothing.
ColorsDone(outcome) ==
    /\ pc' = "done"
    /\ result' = outcome
    /\ UNCHANGED <<arg, str_date, j, nr, date_, date_list, stdout>>

\* isinstance(color_scheme,(str,unicode,int,float))
IsSchemeType(c) == c.t \in {"str", "int", "float"}

\* Line 328 under Python 3: the name unicode is not defined there, and the
\* tuple (str,unicode,int,float) is built before isinstance is called.
GetColorsNameError ==
    /\ pc = "call"
    /\ arg.py = 3
    /\ ColorsDone(Raise("NameError"))

\* Lines 328-329.
GetColorsSchemeTypeError ==
    /\ pc = "call"
    /\ arg.py = 2
    /\ ~IsSchemeType(arg.color_scheme)
    /\ ColorsDone(Raise("TypeError"))

\* Lines 363-364.
GetColorsInvalidScheme ==
    /\ pc = "call"
    /\ arg.py = 2
    /\ IsSchemeType(arg.color_scheme)
    /\ Palette(arg.color_scheme).kind = "raise"
    /\ ColorsDone(Palette(arg.color_scheme))

\* Lines 369-370: N is neither None nor an integer.
GetColorsCountTypeError ==
    /\ pc = "call"
    /\ arg.py = 2
    /\ IsSchemeType(arg.color_scheme)
    /\ Palette(arg.color_scheme).kind = "return"
    /\ arg.N.t \notin {"NoneType", "int"}
    /\ ColorsDone(Raise("TypeError"))

\* [palette[i % L] for i in range(N)]
WrapAround(palette, N) == [i \in 1..N |-> palette[((i - 1) % Len(palette)) + 1]]

\* Lines 366-371.
GetColorsReturn ==
    /\ pc = "call"
    /\ arg.py = 2
    /\ IsSchemeType(arg.color_scheme)
    /\ Palette(arg.color_scheme).kind = "return"
    /\ arg.N.t \in {"NoneType", "int"}
    /\ LET palette == Palette(arg.color_scheme).value
           L == Len(palette)
           N == IF arg.N.t = "NoneType" THEN L ELSE arg.N.n
       IN  ColorsDone(Return(WrapAround(palette, N)))

NextColors ==
    \/ GetColorsNameError
    \/ GetColorsSchemeTypeError
    \/ GetColorsInvalidScheme
    \/ GetColorsCountTypeError
    \/ GetColorsReturn

SpecColors == InitColors /\ [][NextColors]_vars

\* The palette length L of a valid scheme.
ValidScheme(c) == IsSchemeType(c) /\ Palette(c).kind = "return"

\* The colors the claim names: entry i (from 0) is palette[i mod L].
ExpectedColors(c, N) ==
    [i \in 1..N |-> Palette(c).value[((i - 1) % Len(Palette(c).value)) + 1]]

ColorsCalled == pc = "done" /\ arg.fn = "get_colors"

\* C17: for a valid scheme with palette length L, get_colors(N, scheme)
\* with an integer N >= 0 returns the N colors palette[i mod L], i < N, and
\* with N = None it returns the L colors of the palette in order.
C17_GetColors ==
    /\ ColorsCalled /\ ValidScheme(arg.color_scheme) /\ arg.N.t = "int" /\ arg.N.n >= 0 =>
           result = Return(ExpectedColors(arg.color_scheme, arg.N.n))
    /\ ColorsCalled /\ ValidScheme(arg.color_scheme) /\ arg.N.t = "NoneType" =>
           result = Return(Palette(arg.color_scheme).value)

\* The same, for the calls made under Python 2.
C17_GetColors_Python2 == arg.py = 2 => C17_GetColors

(***************************************************************************)
(* find_axes_lim(data_limit, tick_base_unit, direction)                    *)
(*                                                                         *)
(* Numbers are exact: a number of type t and value h/2 is Num(t, h).  The  *)
(* quotients of such small numbers are far from the next integer unless    *)
(* they are integers, so the floating-point quotient truncates like the    *)
(* exact one.                                                              *)
(***************************************************************************)
Num(type, halves) == [t |-> type, h |-> halves]

Abs(a) == IF a < 0 THEN 0 - a ELSE a

\* int(a/b) of a float quotient: truncation toward zero.
Trunc(a, b) ==
    IF (a >= 0) = (b > 0) THEN Abs(a) \div Abs(b) ELSE 0 - (Abs(a) \div Abs(b))

\* a/b of two ints under Python 2: floor division.
FloorDiv(a, b) ==
    LET q == Trunc(a, b) IN IF q * b # a /\ (a < 0) # (b < 0) THEN q - 1 ELSE q

\* int(x/tick_base_unit).  A built-in number divided by zero raises; a
\* numpy.float64 divided by zero is inf or nan, which int() refuses.
Quotient(py, x, unit) ==
    IF unit.h = 0
    THEN IF x.t = "float64"
         THEN Raise(IF x.h = 0 THEN "ValueError" ELSE "OverflowError")
         ELSE Raise("ZeroDivisionError")
    ELSE IF py = 2 /\ x.t = "int" /\ unit.t = "int"
    THEN Return(FloorDiv(x.h, unit.h))
    ELSE Return(Trunc(x.h, unit.h))

\* tick_base_unit * (int(x/tick_base_unit) + more)
Multiple(py, x, unit, more) ==
    LET q == Quotient(py, x, unit)
    IN  IF q.kind = "raise" THEN q ELSE Return(Num(unit.t, unit.h * (q.value + more)))

\* Line 427.
UpperLimit(py, x, unit) == Multiple(py, x, unit, 1)

\* Line 429.
LowerLimit(py, x, unit) == Multiple(py, x, unit, 0)

\* min and max of a list of two: the first of two equal elements wins.
min(xs) == IF xs[2].h < xs[1].h THEN xs[2] ELSE xs[1]

max(xs) == IF xs[2].h > xs[1].h THEN xs[2] ELSE xs[1]

\* Lines 437-441.
PairLimits(py, xs, unit) ==
    LET max_limit == UpperLimit(py, max(xs), unit)
        min_limit == LowerLimit(py, min(xs), unit)
    IN  IF max_limit.kind = "raise" THEN max_limit
        ELSE IF min_limit.kind = "raise" THEN min_limit
        ELSE Return(PySeq("list", <<min_limit.value, max_limit.value>>))

TooLong == <<"*****  Length of data_limit should be at most 2.  *****">>

AtLeastOne == <<"*****  Length of data_limit should be at least 1.  *****">>

Unrecognized == <<"*****  Unrecognized data type for data_limit.  *****">>

\* A call on a scalar (lines 425-431): what it gives and what it prints.
ScalarCall(py, x, unit, direction) ==
    IF direction = "upper" THEN [out |-> UpperLimit(py, x, unit), printed |-> <<>>]
    ELSE IF direction = "lower" THEN [out |-> LowerLimit(py, x, unit), printed |-> <<>>]
    ELSE [out |-> Return(PyNone), printed |-> AtLeastOne]

\* A call on a list (lines 432-443).
ListCall(py, xs, unit, direction) ==
    IF Len(xs) > 2 THEN [out |-> Raise("SystemExit"), printed |-> TooLong]
    ELSE IF Len(xs) = 2 THEN [out |-> PairLimits(py, xs, unit), printed |-> <<>>]
    ELSE IF Len(xs) = 1 THEN ScalarCall(py, xs[1], unit, direction)
    ELSE [out |-> Return(PyNone), printed |-> <<>>]

\* The data values are the halves from -MaxHalves/2 to MaxHalves/2.
MaxHalves == 8

Halves == (0 - MaxHalves)..MaxHalves

DataValues ==
    {Num("float", h) : h \in Halves} \cup {Num("int", 2 * n) : n \in {k \in Halves : 2 * k \in Halves}}
    \cup {Num("float", 1843)}

\* Units 1, 2, 50, 0.5, 2.5, and the units a caller should not pass: 0, -2.
Units ==
    {Num("int", 2), Num("int", 4), Num("int", 100), Num("float", 1), Num("float", 5),
     Num("int", 0), Num("int", 0 - 4)}

Directions == {"upper", "lower", "both"}

\* The float64 elements of an ndarray.
ArrayValues == {Num("float64", h) : h \in {0 - 3, 0, 3}}

DataLimits ==
    DataValues
    \cup {PySeq("list", <<a, b>>) : a \in DataValues, b \in DataValues}
    \cup {PySeq("list", <<a>>) : a \in DataValues}
    \cup {PySeq("list", <<>>), PySeq("list", <<Num("int", 2), Num("int", 4), Num("int", 6)>>)}
    \cup {PySeq("tuple", <<Num("int", 2), Num("float", 5)>>), PyNone}
    \cup {PySeq("ndarray", <<>>)}
    \cup {PySeq("ndarray", <<a>>) : a \in ArrayValues}
    \cup {PySeq("ndarray", <<a, b>>) : a \in ArrayValues, b \in ArrayValues}
    \cup {PySeq("ndarray", <<a, a, a>>) : a \in ArrayValues}

\* The direction matters to a scalar or a single element only; the calls on
\* other data are made with the default.
AxesInputs ==
    {[fn |-> "find_axes_lim", py |-> v, data_limit |-> x, tick_base_unit |-> u, direction |-> d] :
        v \in Interpreters, x \in DataLimits, u \in Units, d \in Directions}
    \ {a \in [fn : {"find_axes_lim"}, py : Interpreters, data_limit : DataLimits,
              tick_base_unit : Units, direction : Directions] :
          /\ a.direction # "upper"
          /\ a.data_limit.t \in {"list", "tuple", "ndarray", "NoneType"}
          /\ (a.data_limit.t = "NoneType" \/ Len(a.data_limit.elems) # 1)}

InitAxes ==
    /\ arg \in AxesInputs
    /\ str_date = Unbound
    /\ pc = "call"
    /\ j = 0
    /\ nr = 0
    /\ date_ = Unbound
    /\ date_list = Unbound
    /\ result = NoResult
    /\ stdout = <<>>

\* find_axes_lim ends with the outcome after printing the lines.
AxesDone(call) ==
    /\ pc' = "done"
    /\ result' = call.out
    /\ stdout' = stdout \o call.printed
    /\ UNCHANGED <<arg, str_date, j, nr, date_, date_list>>

\* isinstance(data_limit,float) or isinstance(data_limit,int); a
\* numpy.float64 is a float.
IsScalar(x) == x.t \in {"int", "float", "float64"}

\* Lines 425-427.
FindAxesLimUpper ==
    /\ pc = "call"
    /\ IsScalar(arg.data_limit)
    /\ arg.direction = "upper"
    /\ AxesDone([out |-> UpperLimit(arg.py, arg.data_limit, arg.tick_base_unit),
                 printed |-> <<>>])

\* Lines 428-429.
FindAxesLimLower ==
    /\ pc = "call"
    /\ IsScalar(arg.data_limit)
    /\ arg.direction = "lower"
    /\ AxesDone([out |-> LowerLimit(arg.py, arg.data_limit, arg.tick_base_unit),
                 printed |-> <<>>])

\* Lines 430-431: the function prints and falls off its end.
FindAxesLimNoDirection ==
    /\ pc = "call"
    /\ IsScalar(arg.data_limit)
    /\ arg.direction \notin {"upper", "lower"}
    /\ AxesDone([out |-> Return(PyNone), printed |-> AtLeastOne])

\* Lines 433-435.
FindAxesLimTooLong ==
    /\ pc = "call"
    /\ arg.data_limit.t = "list"
    /\ Len(arg.data_limit.elems) > 2
    /\ AxesDone([out |-> Raise("SystemExit"), printed |-> TooLong])

\* Lines 436-441.
FindAxesLimPair ==
    /\ pc = "call"
    /\ arg.data_limit.t = "list"
    /\ Len(arg.data_limit.elems) = 2
    /\ AxesDone([out |-> PairLimits(arg.py, arg.data_limit.elems, arg.tick_base_unit),
                 printed |-> <<>>])

\* Lines 442-443: the call on the only element.
FindAxesLimSingle ==
    /\ pc = "call"
    /\ arg.data_limit.t = "list"
    /\ Len(arg.data_limit.elems) = 1
    /\ AxesDone(ScalarCall(arg.py, arg.data_limit.elems[1], arg.tick_base_unit, arg.direction))

\* An empty list matches no arm of lines 433-443.
FindAxesLimEmpty ==
    /\ pc = "call"
    /\ arg.data_limit.t = "list"
    /\ Len(arg.data_limit.elems) = 0
    /\ AxesDone([out |-> Return(PyNone), printed |-> <<>>])

\* Lines 445-455: an ndarray is flattened and handed on by its size.
FindAxesLimArray ==
    /\ pc = "call"
    /\ arg.data_limit.t = "ndarray"
    /\ LET flat == arg.data_limit.elems
       IN  AxesDone(IF Len(flat) = 1
                    THEN ScalarCall(arg.py, flat[1], arg.tick_base_unit, arg.direction)
                    ELSE IF Len(flat) = 2
                    THEN ListCall(arg.py, flat, arg.tick_base_unit, arg.direction)
                    ELSE IF Len(flat) >= 3
                    THEN [out |-> Raise("SystemExit"), printed |-> TooLong]
                    ELSE [out |-> Raise("SystemExit"), printed |-> Unrecognized])

\* Lines 456-458: any other type.
FindAxesLimUnrecognized ==
    /\ pc = "call"
    /\ ~IsScalar(arg.data_limit)
    /\ arg.data_limit.t \notin {"list", "ndarray"}
    /\ AxesDone([out |-> Raise("SystemExit"), printed |-> Unrecognized])

NextAxes ==
    \/ FindAxesLimUpper
    \/ FindAxesLimLower
    \/ FindAxesLimNoDirection
    \/ FindAxesLimTooLong
    \/ FindAxesLimPair
    \/ FindAxesLimSingle
    \/ FindAxesLimEmpty
    \/ FindAxesLimArray
    \/ FindAxesLimUnrecognized

SpecAxes == InitAxes /\ [][NextAxes]_vars

\* A finished call on a built-in scalar with a positive unit.
ScalarDone(direction) ==
    /\ pc = "done"
    /\ arg.fn = "find_axes_lim"
    /\ arg.data_limit.t \in {"int", "float"}
    /\ arg.tick_base_unit.h > 0
    /\ arg.direction = direction

\* The number v is a multiple of the unit.
IsMultiple(v, unit) == v.h % unit.h = 0

\* C18: with a scalar data_limit of either sign, a positive tick_base_unit
\* and direction 'upper', find_axes_lim returns the smallest multiple of
\* the unit that is strictly greater than data_limit.
C18_UpperIsNextMultiple ==
    ScalarDone("upper") =>
        /\ result.kind = "return"
        /\ IsMultiple(result.value, arg.tick_base_unit)
        /\ result.value.h > arg.data_limit.h
        /\ result.value.h - arg.tick_base_unit.h <= arg.data_limit.h

\* The same for the data that are not negative.
C18_UpperIsNextMultiple_NonNegative ==
    (IsScalar(arg.data_limit) => arg.data_limit.h >= 0) => C18_UpperIsNextMultiple

\* A finished call on a list of two with a positive unit.
PairDone ==
    /\ pc = "done"
    /\ arg.fn = "find_axes_lim"
    /\ arg.data_limit.t = "list"
    /\ Len(arg.data_limit.elems) = 2

\* C19: with a scalar data_limit of either sign, a positive tick_base_unit
\* and direction 'lower', find_axes_lim returns the largest multiple of the
\* unit that is less than or equal to data_limit; and the min_limit returned
\* for a list of two never exceeds the smaller data value.
C19_LowerIsMultipleBelow ==
    /\ ScalarDone("lower") =>
           /\ result.kind = "return"
           /\ IsMultiple(result.value, arg.tick_base_unit)
           /\ result.value.h <= arg.data_limit.h
           /\ result.value.h + arg.tick_base_unit.h > arg.data_limit.h
    /\ PairDone /\ arg.tick_base_unit.h > 0 =>
           /\ result.kind = "return"
           /\ result.value.elems[1].h <= min(arg.data_limit.elems).h

\* The same for the data that are not negative.
C19_LowerIsMultipleBelow_NonNegative ==
    (IF IsScalar(arg.data_limit) THEN arg.data_limit.h >= 0
     ELSE PairDone => min(arg.data_limit.elems).h >= 0) => C19_LowerIsMultipleBelow

\* The list with its two elements in the other order.
Swapped(xs) == <<xs[2], xs[1]>>

\* C20: for a list of two, find_axes_lim returns [min_limit, max_limit] with
\* min_limit <= max_limit, and the call on the two elements in the other
\* order gives the same result.
C20_OrderedAndOrderIndependent ==
    PairDone =>
        /\ result.kind = "return" => result.value.elems[1].h <= result.value.elems[2].h
        /\ result = PairLimits(arg.py, Swapped(arg.data_limit.elems), arg.tick_base_unit)

\* The same for the calls under Python 3 with a positive unit.
C20_Python3_PositiveUnit ==
    arg.py = 3 /\ arg.tick_base_unit.h > 0 => C20_OrderedAndOrderIndependent

\* C21: find_axes_lim takes a tuple of two elements as it takes a list of
\* two: it returns [min_limit, max_limit] and does not end the program.
C21_TupleLikeList ==
    /\ pc = "done"
    /\ arg.fn = "find_axes_lim"
    /\ arg.data_limit.t = "tuple"
    /\ Len(arg.data_limit.elems) = 2
    => /\ result = PairLimits(arg.py, arg.data_limit.elems, arg.tick_base_unit)
       /\ stdout = <<>>

(***************************************************************************)
(* check_all_states(dict1) and translate_state_abbrev(dict1,               *)
(* abbrev_to_full)                                                         *)
(*                                                                         *)
(* A dict is the function from its keys to their values.                   *)
(***************************************************************************)
PyDict(items) == [t |-> "dict", items |-> items]

PyBool(b) == [t |-> "bool", b |-> b]

\* np.nan
nan == [t |-> "float", nan |-> TRUE]

\* The table of the branch abbrev_to_full is True (lines 1058-1116).
abbrev_translation ==
    ("AK" :> "Alaska") @@ ("AL" :> "Alabama") @@ ("AR" :> "Arkansas") @@
    ("AS" :> "American Samoa") @@ ("AZ" :> "Arizona") @@ ("CA" :> "California") @@
    ("CO" :> "Colorado") @@ ("CT" :> "Connecticut") @@ ("DC" :> "District of Columbia") @@
    ("DE" :> "Delaware") @@ ("FL" :> "Florida") @@ ("GA" :> "Georgia") @@
    ("GU" :> "Guam") @@ ("HI" :> "Hawaii") @@ ("IA" :> "Iowa") @@ ("ID" :> "Idaho") @@
    ("IL" :> "Illinois") @@ ("IN" :> "Indiana") @@ ("KS" :> "Kansas") @@
    ("KY" :> "Kentucky") @@ ("LA" :> "Louisiana") @@ ("MA" :> "Massachusetts") @@
    ("MD" :> "Maryland") @@ ("ME" :> "Maine") @@ ("MI" :> "Michigan") @@
    ("MN" :> "Minnesota") @@ ("MO" :> "Missouri") @@
    ("MP" :> "Northern Mariana Islands") @@ ("MS" :> "Mississippi") @@
    ("MT" :> "Montana") @@ ("NA" :> "National") @@ ("NC" :> "North Carolina") @@
    ("ND" :> "North Dakota") @@ ("NE" :> "Nebraska") @@ ("NH" :> "New Hampshire") @@
    ("NJ" :> "New Jersey") @@ ("NM" :> "New Mexico") @@ ("NV" :> "Nevada") @@
    ("NY" :> "New York") @@ ("OH" :> "Ohio") @@ ("OK" :> "Oklahoma") @@
    ("OR" :> "Oregon") @@ ("PA" :> "Pennsylvania") @@ ("PR" :> "Puerto Rico") @@
    ("RI" :> "Rhode Island") @@ ("SC" :> "South Carolina") @@ ("SD" :> "South Dakota") @@
    ("TN" :> "Tennessee") @@ ("TX" :> "Texas") @@ ("UT" :> "Utah") @@
    ("VA" :> "Virginia") @@ ("VI" :> "Virgin Islands") @@ ("VT" :> "Vermont") @@
    ("WA" :> "Washington") @@ ("WI" :> "Wisconsin") @@ ("WV" :> "West Virginia") @@
    ("WY" :> "Wyoming")

\* The table of the else branch (lines 1118-1169).
full_translation ==
    ("Alabama" :> "AL") @@ ("Alaska" :> "AK") @@ ("Arizona" :> "AZ") @@
    ("Arkansas" :> "AR") @@ ("California" :> "CA") @@ ("Colorado" :> "CO") @@
    ("Connecticut" :> "CT") @@ ("Delaware" :> "DE") @@ ("Florida" :> "FL") @@
    ("Georgia" :> "GA") @@ ("Hawaii" :> "HI") @@ ("Idaho" :> "ID") @@
    ("Illinois" :> "IL") @@ ("Indiana" :> "IN") @@ ("Iowa" :> "IA") @@
    ("Kansas" :> "KS") @@ ("Kentucky" :> "KY") @@ ("Louisiana" :> "LA") @@
    ("Maine" :> "ME") @@ ("Maryland" :> "MD") @@ ("Massachusetts" :> "MA") @@
    ("Michigan" :> "MI") @@ ("Minnesota" :> "MN") @@ ("Mississippi" :> "MS") @@
    ("Missouri" :> "MO") @@ ("Montana" :> "MT") @@ ("Nebraska" :> "NE") @@
    ("Nevada" :> "NV") @@ ("New Hampshire" :> "NH") @@ ("New Jersey" :> "NJ") @@
    ("New Mexico" :> "NM") @@ ("New York" :> "NY") @@ ("North Carolina" :> "NC") @@
    ("North Dakota" :> "ND") @@ ("Ohio" :> "OH") @@ ("Oklahoma" :> "OK") @@
    ("Oregon" :> "OR") @@ ("Pennsylvania" :> "PA") @@ ("Rhode Island" :> "RI") @@
    ("South Carolina" :> "SC") @@ ("South Dakota" :> "SD") @@ ("Tennessee" :> "TN") @@
    ("Texas" :> "TX") @@ ("Utah" :> "UT") @@ ("Vermont" :> "VT") @@ ("Virginia" :> "VA") @@
    ("Washington" :> "WA") @@ ("West Virginia" :> "WV") @@ ("Wisconsin" :> "WI") @@
    ("Wyoming" :> "WY")

\* translate_state_abbrev: the loop of lines 1171-1176 over dict1.keys().
\* translation[state_name] raises KeyError at a key the table does not
\* hold.  No two keys of a table have the same value, so no update()
\* replaces an earlier one.
translate_state_abbrev(dict1, abbrev_to_full) ==
    LET translation ==
            IF abbrev_to_full = PyBool(TRUE) THEN abbrev_translation ELSE full_translation
        items == dict1.items
        new_names == {translation[k] : k \in DOMAIN items}
    IN  IF \E k \in DOMAIN items : k \notin DOMAIN translation THEN Raise("KeyError")
        ELSE Return(PyDict([n \in new_names |->
                               items[CHOOSE k \in DOMAIN items : translation[k] = n]]))

full_state_list ==
    <<"Alabama", "Alaska", "Arizona", "Arkansas", "California", "Colorado", "Connecticut",
      "Delaware", "Florida", "Georgia", "Hawaii", "Idaho", "Illinois", "Indiana", "Iowa",
      "Kansas", "Kentucky", "Louisiana", "Maine", "Maryland", "Massachusetts", "Michigan",
      "Minnesota", "Mississippi", "Missouri", "Montana", "Nebraska", "Nevada",
      "New Hampshire", "New Jersey", "New Mexico", "New York", "North Carolina",
      "North Dakota", "Ohio", "Oklahoma", "Oregon", "Pennsylvania", "Rhode Island",
      "South Carolina", "South Dakota", "Tennessee", "Texas", "Utah", "Vermont",
      "Virginia", "Washington", "West Virginia", "Wisconsin", "Wyoming">>

\* The elements of a list.
Elems(list) == {list[i] : i \in DOMAIN list}

\* list.sort() sorts in place and returns None.
sort(list) == PyNone

\* print('%s data missing (replaced with NaN).'%state)
MissingLine(state) == <<state, " data missing (replaced with NaN).">>

\* The states of full_state_list from position i on that dict1 lacks, in
\* the order of the list: one printed line each.
RECURSIVE MissingFrom(_, _)
MissingFrom(items, i) ==
    IF i > Len(full_state_list) THEN <<>>
    ELSE (IF full_state_list[i] \in DOMAIN items THEN <<>>
          ELSE <<MissingLine(full_state_list[i])>>) \o MissingFrom(items, i + 1)

\* The loop with the else arm left out: a missing state gets no entry.
Rebuilt_without_missing(items) ==
    [state \in Elems(full_state_list) \cap DOMAIN items |-> items[state]]

\* Lines 1203-1209: dict2 built over full_state_list.
Rebuilt(items) ==
    [state \in Elems(full_state_list) |->
        IF state \in DOMAIN items THEN items[state] ELSE nan]

\* The dicts handed to check_all_states: some states, the District of
\* Columbia and Puerto Rico, each absent or present with a value, alone or
\* together with all the other states.
SomeNames == {"Alabama", "Texas", "Wyoming", "District of Columbia", "Puerto Rico"}

DictValues == {PyInt(1), PyInt(2), nan}

OtherStates == [state \in Elems(full_state_list) \ SomeNames |-> PyInt(1)]

DictsOver(keys, values) == UNION {[ks -> values] : ks \in SUBSET keys}

StateDicts ==
    {PyDict(d) : d \in DictsOver(SomeNames, DictValues)}
    \cup {PyDict(d @@ OtherStates) : d \in DictsOver(SomeNames, DictValues)}

\* The dicts handed to translate_state_abbrev: keys of both kinds and one
\* that no table holds.
SomeKeys == {"AK", "TX", "DC", "Alaska", "Texas", "District of Columbia", "Atlantis"}

Flags == {PyBool(TRUE), PyBool(FALSE), PyInt(1)}

StateInputs ==
    {[fn |-> "check_all_states", dict1 |-> d] : d \in StateDicts}
    \cup {[fn |-> "translate_state_abbrev", dict1 |-> PyDict(d), abbrev_to_full |-> f] :
            d \in DictsOver(SomeKeys, {PyInt(1), PyInt(2)}), f \in Flags}

InitStates ==
    /\ arg \in StateInputs
    /\ str_date = Unbound
    /\ pc = "call"
    /\ j = 0
    /\ nr = 0
    /\ date_ = Unbound
    /\ date_list = Unbound
    /\ result = NoResult
    /\ stdout = <<>>

\* Lines 1201-1212.  The test of line 1201 compares the None that sort()
\* returns with the list.
CheckAllStates ==
    /\ pc = "call"
    /\ arg.fn = "check_all_states"
    /\ pc' = "done"
    /\ IF sort(arg.dict1.items) # PySeq("list", full_state_list)
       THEN /\ result' = Return(PyDict(Rebuilt(arg.dict1.items)))
            /\ stdout' = stdout \o MissingFrom(arg.dict1.items, 1)
       ELSE /\ result' = Return(arg.dict1)
            /\ stdout' = stdout
    /\ UNCHANGED <<arg, str_date, j, nr, date_, date_list>>

\* Lines 1057-1176, every key in the table.
TranslateStateAbbrev ==
    /\ pc = "call"
    /\ arg.fn = "translate_state_abbrev"
    /\ translate_state_abbrev(arg.dict1, arg.abbrev_to_full).kind = "return"
    /\ pc' = "done"
    /\ result' = translate_state_abbrev(arg.dict1, arg.abbrev_to_full)
    /\ UNCHANGED <<arg, str_date, j, nr, date_, date_list, stdout>>

\* Line 1173 at a key the table does not hold.
TranslateKeyError ==
    /\ pc = "call"
    /\ arg.fn = "translate_state_abbrev"
    /\ translate_state_abbrev(arg.dict1, arg.abbrev_to_full).kind = "raise"
    /\ pc' = "done"
    /\ result' = Raise("KeyError")
    /\ UNCHANGED <<arg, str_date, j, nr, date_, date_list, stdout>>

\* Lines 636-643: the caller hands the dict translated to full names on to
\* check_all_states.
CheckTranslated ==
    /\ pc = "done"
    /\ arg.fn = "translate_state_abbrev"
    /\ arg.abbrev_to_full = PyBool(TRUE)
    /\ result.kind = "return"
    /\ arg' = [fn |-> "check_all_states", dict1 |-> result.value]
    /\ pc' = "call"
    /\ result' = NoResult
    /\ UNCHANGED <<str_date, j, nr, date_, date_list, stdout>>

NextStates ==
    \/ CheckAllStates
    \/ TranslateStateAbbrev
    \/ TranslateKeyError
    \/ CheckTranslated

SpecStates == InitStates /\ [][NextStates]_vars

\* A finished call of check_all_states.
CheckDone == pc = "done" /\ arg.fn = "check_all_states"

\* C22: the result of check_all_states has every one of the 50 states as a
\* key; a state of the input keeps its value and a state the input lacks is
\* given NaN.
C22_AllStatesPresent ==
    CheckDone =>
        /\ result.kind = "return"
        /\ Len(full_state_list) = 50
        /\ Cardinality(Elems(full_state_list)) = 50
        /\ \A state \in Elems(full_state_list) :
               /\ state \in DOMAIN result.value.items
               /\ result.value.items[state] =
                      IF state \in DOMAIN arg.dict1.items THEN arg.dict1.items[state] ELSE nan

\* A call on a dict that has Texas and lacks Alabama.
C22_Witness ==
    /\ CheckDone
    /\ "Texas" \in DOMAIN arg.dict1.items
    /\ arg.dict1.items["Texas"] = PyInt(2)
    /\ "Alabama" \notin DOMAIN arg.dict1.items
    /\ result.value.items["Alabama"] = nan
    /\ result.value.items["Texas"] = PyInt(2)

\* C23: check_all_states only appends: every key and value of the input,
\* the keys outside the 50 states too, is in the result, and an input that
\* holds all 50 states comes back with no entry added or removed.
C23_OnlyAppends ==
    CheckDone =>
        /\ result.kind = "return"
        /\ \A k \in DOMAIN arg.dict1.items :
               /\ k \in DOMAIN result.value.items
               /\ result.value.items[k] = arg.dict1.items[k]
        /\ Elems(full_state_list) \subseteq DOMAIN arg.dict1.items =>
               DOMAIN result.value.items = DOMAIN arg.dict1.items

\* The same for the inputs whose keys are all among the 50 states.
C23_OnlyAppends_StatesOnly ==
    DOMAIN arg.dict1.items \subseteq Elems(full_state_list) => C23_OnlyAppends

\* A finished call of translate_state_abbrev that accepted its dict.
TranslateDone(abbrev_to_full) ==
    /\ pc = "done"
    /\ arg.fn = "translate_state_abbrev"
    /\ arg.abbrev_to_full = PyBool(abbrev_to_full)
    /\ result.kind = "return"

\* C24: a dict of abbreviations that translate_state_abbrev accepts with
\* abbrev_to_full=True, translated to full names and back with
\* abbrev_to_full=False, is the original dict; and a dict of full names
\* accepted with abbrev_to_full=False, translated and translated back with
\* abbrev_to_full=True, is the original dict.
C24_RoundTrip ==
    /\ TranslateDone(TRUE) =>
           translate_state_abbrev(result.value, PyBool(FALSE)) = Return(arg.dict1)
    /\ TranslateDone(FALSE) =>
           translate_state_abbrev(result.value, PyBool(TRUE)) = Return(arg.dict1)

\* The direction from full names to abbreviations and back alone.
C24_RoundTrip_FromFullNames ==
    TranslateDone(FALSE) =>
        translate_state_abbrev(result.value, PyBool(TRUE)) = Return(arg.dict1)

=============================================================================
